---- MODULE Spec2Model ----
(***************************************************************************)
(* ScopedPerformance (src/src/scoped-performance.ts, lines 121-317): a     *)
(* wrapper that scopes the names of the marks and measures of one shared   *)
(* Performance object by a per-instance prefix, and keeps a list of the    *)
(* event listeners added through it so that they can be removed on         *)
(* [Symbol.dispose].                                                       *)
(*                                                                         *)
(* Strings are sequences of one-character strings, so that prefixing,      *)
(* startsWith and replace are computed character by character.  The        *)
(* shared Performance object (the registry) is the platform's; it is       *)
(* modelled after section 6 of the specification.                          *)
(***************************************************************************)
EXTENDS Integers, Sequences, FiniteSets, TLC

VARIABLES randomId, entries, now, listeners, calls, owned, last

vars == <<randomId, entries, now, listeners, calls, owned, last>>

(***************************************************************************)
(* Bounds                                                                  *)
(***************************************************************************)
\* largest number of entries kept in the registry's buffer
MaxEntries == 2
\* timing scenarios: largest number of entries in the registry's buffer
MaxTimed == 4
\* largest number of records in one adapter's _addEventListenerCalls
MaxCalls == 2
\* largest reading of the registry's clock
MaxNow == 2
\* longest logical name of the naming scenarios
MaxNameLen == 4

(***************************************************************************)
(* Values                                                                  *)
(***************************************************************************)
Adapters == {"A", "B"}

\* the party that bypasses every adapter and calls the registry directly
Direct == "reg"

\* the absent string argument (JavaScript undefined); no string of
\* one-character strings equals it
Undefined == <<"undefined">>

\* the absent startTime option of mark()
NoTime == -1

\* the scope identifiers the injected generators may return
ScopeIds == { <<"s">>, <<"c">>, <<"s", ":">> }

\* logical names handed to the adapters
LogicalNames == { <<>>, <<"m">>, <<":", "m">> }

\* logical names under which the adapters create entries
EntryNames == { <<"m">>, <<":", "m">> }

\* names handed to the registry by code that bypasses the adapters
RawNames == { <<"m">>, <<"s", ":", ":", "m">> }

\* logical mark names of the timing scenarios, and the measure name
TimingNames == { <<"m">>, <<"n">> }

MeasureName == <<"d">>

\* the startTime options of the measuring adapter's marks, and of the marks
\* that others create under the same logical names
OwnTimes == {1, 5}

ForeignTimes == {3}

EntryTypes == {"mark", "measure"}

(***************************************************************************)
(* String primitives of the platform                                       *)
(***************************************************************************)
\* String.prototype.startsWith
StartsWith(str, pre) ==
    /\ Len(pre) <= Len(str)
    /\ SubSeq(str, 1, Len(pre)) = pre

\* String.prototype.indexOf, 1-based; 0 when pat does not occur
IndexOf(str, pat) ==
    LET hits == { i \in 1..(Len(str) + 1) :
                    /\ i + Len(pat) - 1 <= Len(str)
                    /\ SubSeq(str, i, i + Len(pat) - 1) = pat }
    IN IF hits = {} THEN 0 ELSE CHOOSE i \in hits : \A j \in hits : i <= j

\* String.prototype.replace(pat, ''): the first occurrence of pat is removed
ReplaceFirst(str, pat) ==
    LET i == IndexOf(str, pat)
    IN IF i = 0 THEN str
       ELSE SubSeq(str, 1, i - 1) \o SubSeq(str, i + Len(pat), Len(str))

\* JavaScript truthiness of an optional string: undefined and '' are falsy
Truthy(str) == str # Undefined /\ str # <<>>

(***************************************************************************)
(* Arguments                                                               *)
(***************************************************************************)
\* the second argument of measure(): undefined, a mark name, or an options
\* object whose start and end members (when present) name marks
StartUndefined == [kind |-> "undefined", name |-> Undefined,
                   start |-> Undefined, end |-> Undefined]

StartString(n) == [kind |-> "string", name |-> n,
                   start |-> Undefined, end |-> Undefined]

StartObject(s, e) == [kind |-> "object", name |-> Undefined,
                      start |-> s, end |-> e]

\* the options argument of addEventListener / removeEventListener:
\* undefined, a boolean, or an object whose capture member may be absent
OptUndefined == [kind |-> "undefined", capture |-> "undefined"]

OptBoolean(b) == [kind |-> "boolean", capture |-> b]

OptObject(c) == [kind |-> "object", capture |-> c]

\* the absent listener (JavaScript null)
Null == "null"

\* event types, callbacks and options arguments of the listener scenarios
EventTypes == {"x"}

OptionsForms ==
    { OptUndefined, OptBoolean("true"), OptBoolean("false"),
      OptObject("undefined"), OptObject("true"), OptObject("false") }

\* a call forwarded to the registry
NoCall == [fn |-> "", name |-> Undefined, start |-> StartUndefined,
           end |-> Undefined, type |-> "", listener |-> Null,
           options |-> OptUndefined]

\* the most recent operation: who called what with which arguments, the
\* calls it forwarded to the registry, whether the registry threw, and
\* whether it repeats a teardown of the same adapter that came right before
NoLast == [op |-> "", self |-> Direct, name |-> Undefined,
           start |-> StartUndefined, end |-> Undefined, type |-> "",
           listener |-> Null, options |-> OptUndefined,
           fwd |-> <<>>, err |-> FALSE, repeated |-> FALSE]

(***************************************************************************)
(* The registry: the shared Performance object                             *)
(***************************************************************************)
\* performance.mark(name, {startTime}): appends a mark, its detail null; by
\* and lname record who created the entry and under which name it was
\* asked for
performance_mark(es, name, startTime, by, lname) ==
    Append(es, [name |-> name, entryType |-> "mark",
                startTime |-> IF startTime = NoTime THEN now ELSE startTime,
                duration |-> 0, detail |-> Null, by |-> by, lname |-> lname])

\* performance.mark(name, {detail}): the mark carries the detail given
performance_markDetail(es, name, detail, by, lname) ==
    LET marked == performance_mark(es, name, NoTime, by, lname)
    IN [marked EXCEPT ![Len(marked)].detail = detail]

\* the startTime of the most recent mark called name, NoTime when none
convertMarkToTimestamp(es, name) ==
    LET hits == { i \in 1..Len(es) :
                    es[i].entryType = "mark" /\ es[i].name = name }
    IN IF hits = {} THEN NoTime
       ELSE es[CHOOSE i \in hits : \A j \in hits : j <= i].startTime

\* performance.measure(name, startOrOptions, endMark): the entry it would
\* append, and whether it throws instead
performance_measure(es, name, start, endMark, by, lname) ==
    LET hasKeys  == start.kind = "object"
                    /\ (start.start # Undefined \/ start.end # Undefined)
        endRef   == IF Truthy(endMark) THEN endMark
                    ELSE IF start.kind = "object" /\ start.end # Undefined
                         THEN start.end ELSE Undefined
        startRef == IF start.kind = "object" /\ start.start # Undefined
                    THEN start.start
                    ELSE IF start.kind = "string" THEN start.name
                         ELSE Undefined
        endTime   == IF endRef = Undefined THEN now
                     ELSE convertMarkToTimestamp(es, endRef)
        startTime == IF startRef = Undefined THEN 0
                     ELSE convertMarkToTimestamp(es, startRef)
        throws == \/ hasKeys /\ Truthy(endMark)
                  \/ endTime = NoTime
                  \/ startTime = NoTime
    IN [throws |-> throws,
        entry  |-> [name |-> name, entryType |-> "measure",
                    startTime |-> startTime,
                    duration |-> endTime - startTime,
                    detail |-> Null, by |-> by, lname |-> lname]]

performance_getEntries(es) == es

performance_getEntriesByType(es, type) ==
    SelectSeq(es, LAMBDA e : e.entryType = type)

\* type "undefined" stands for the omitted second argument
performance_getEntriesByName(es, name, type) ==
    SelectSeq(es, LAMBDA e : e.name = name
                             /\ (type = "undefined" \/ e.entryType = type))

\* performance.clearMarks(name) / performance.clearMeasures(name): without
\* a name every entry of the kind goes
performance_clear(es, kind, name) ==
    SelectSeq(es, LAMBDA e : ~ (e.entryType = kind
                                /\ (name = Undefined \/ e.name = name)))

\* performance.timeOrigin: fixed when the registry is created
performance_timeOrigin == 1000

\* performance.now(): the reading of the registry's clock
performance_now == now

\* performance.toJSON(): the registry's serialization of itself
performance_toJSON == [timeOrigin |-> performance_timeOrigin]

(***************************************************************************)
(* ScopedPerformance: names                                                *)
(***************************************************************************)
glue == <<":", ":">>

\* a bug: the identifier is left out of the prefix
_prefixName_noid(a, name) == glue \o name

\* a bug: the generator is called again and returns another identifier
_prefixName_regenerated(a, name) ==
    randomId[CHOOSE b \in Adapters : b # a] \o glue \o name

_prefixName(a, name) == randomId[a] \o glue \o name

\* a bug: only the identifier is stripped, the glue stays
_unprefixName_id(a, name) == ReplaceFirst(name, randomId[a])

_unprefixName(a, name) == ReplaceFirst(name, _prefixName(a, <<>>))

\* a bug: any name that holds the glue counts as scoped
_isScopedName_glue(a, name) == IndexOf(name, glue) # 0

_isScopedName(a, name) == StartsWith(name, _prefixName(a, <<>>))

\* a bug: the names are stripped but nothing is filtered out
_filterMap_nofilter(a, es) ==
    [i \in 1..Len(es) |-> [es[i] EXCEPT !.name = _unprefixName(a, es[i].name)]]

\* a bug: the copies are built from name, kind and times only
_filterMap_nodetail(a, es) ==
    LET kept == SelectSeq(es, LAMBDA e : _isScopedName(a, e.name))
    IN [i \in 1..Len(kept) |->
          [kept[i] EXCEPT !.name = _unprefixName(a, kept[i].name),
                          !.detail = Null]]

_filterMap(a, es) ==
    LET kept == SelectSeq(es, LAMBDA e : _isScopedName(a, e.name))
    IN [i \in 1..Len(kept) |->
          [kept[i] EXCEPT !.name = _unprefixName(a, kept[i].name)]]

(***************************************************************************)
(* ScopedPerformance: reads                                                *)
(***************************************************************************)
getEntries(a) == _filterMap(a, performance_getEntries(entries))

getEntriesByType(a, type) ==
    _filterMap(a, performance_getEntriesByType(entries, type))

\* a bug: the registry's result is returned as it is
getEntriesByName_raw(a, name, type) ==
    performance_getEntriesByName(entries, _prefixName(a, name), type)

getEntriesByName(a, name, type) ==
    _filterMap(a, performance_getEntriesByName(entries,
                                               _prefixName(a, name), type))

(***************************************************************************)
(* ScopedPerformance: clock and serialization                              *)
(***************************************************************************)
timeOrigin(a) == performance_timeOrigin

now_(a) == performance_now

\* a bug: the adapter itself is serialized
toJSON_self(a) == [randomId |-> randomId[a], glue |-> glue]

toJSON(a) == performance_toJSON

(***************************************************************************)
(* ScopedPerformance: deletion                                             *)
(***************************************************************************)
NameCall(fn, name) == [NoCall EXCEPT !.fn = fn, !.name = name]

\* the forEach of clearMarks() / clearMeasures(): one registry deletion per
\* name of the snapshot
RECURSIVE ClearEach(_, _, _)
ClearEach(es, kind, names) ==
    IF names = <<>> THEN es
    ELSE ClearEach(performance_clear(es, kind, Head(names)), kind,
                   Tail(names))

\* a bug: without a name the deletion is forwarded without a name
clearKind_all(a, es, kind, name) ==
    LET fn == IF kind = "mark" THEN "clearMarks" ELSE "clearMeasures"
        target == IF Truthy(name) THEN _prefixName(a, name) ELSE Undefined
    IN [es  |-> performance_clear(es, kind, target),
        fwd |-> << NameCall(fn, target) >>]

\* clearMarks(name?) / clearMeasures(name?) of adapter a on the buffer es:
\* the buffer afterwards and the deletions forwarded to the registry
clearKind(a, es, kind, name) ==
    LET fn == IF kind = "mark" THEN "clearMarks" ELSE "clearMeasures"
    IN IF Truthy(name)
       THEN [es  |-> performance_clear(es, kind, _prefixName(a, name)),
             fwd |-> << NameCall(fn, _prefixName(a, name)) >>]
       ELSE LET snapshot == performance_getEntriesByType(es, kind)
                scoped == SelectSeq(snapshot,
                                    LAMBDA e : _isScopedName(a, e.name))
                names == [i \in 1..Len(scoped) |-> scoped[i].name]
            IN [es  |-> ClearEach(es, kind, names),
                fwd |-> [i \in 1..Len(names) |-> NameCall(fn, names[i])]]

clearMarks(a, es, markName) == clearKind(a, es, "mark", markName)

\* a bug: the measures are left alone
clearMeasures_none(a, es, measureName) == [es |-> es, fwd |-> <<>>]

clearMeasures(a, es, measureName) == clearKind(a, es, "measure", measureName)

(***************************************************************************)
(* Listeners                                                               *)
(***************************************************************************)
\* the capture flag the registry derives from an options argument
flatten(options) ==
    IF options.kind = "undefined" THEN "false"
    ELSE IF options.capture = "true" THEN "true" ELSE "false"

Registration(type, listener, options) ==
    [type |-> type, listener |-> listener, capture |-> flatten(options)]

\* EventTarget.addEventListener: a null listener is ignored and a
\* registration with the same type, callback and capture flag is kept once
performance_addEventListener(ls, type, listener, options) ==
    IF listener = Null THEN ls
    ELSE ls \cup { Registration(type, listener, options) }

performance_removeEventListener(ls, type, listener, options) ==
    ls \ { Registration(type, listener, options) }

\* the callbacks a dispatch of an event of this type invokes
performance_dispatchEvent(ls, type) == { r \in ls : r.type = type }

normalizeEventListenerOptions(options) ==
    IF options.kind = "boolean" \/ options.kind = "undefined"
    THEN OptObject(IF options.capture = "true" THEN "true" ELSE "false")
    ELSE options

\* the index of the first matching record, 0 for undefined
_findListenerIndex(a, type, listener, options) ==
    LET normalized == normalizeEventListenerOptions(options)
        hits == { i \in 1..Len(calls[a]) :
                    /\ calls[a][i].type = type
                    /\ calls[a][i].listener = listener
                    /\ calls[a][i].options.capture = normalized.capture }
    IN IF hits = {} THEN 0 ELSE CHOOSE i \in hits : \A j \in hits : i <= j

ListenerCall(fn, type, listener, options) ==
    [NoCall EXCEPT !.fn = fn, !.type = type, !.listener = listener,
                   !.options = options]

\* Array.prototype.splice(i, 1)
Splice(seq, i) == SubSeq(seq, 1, i - 1) \o SubSeq(seq, i + 1, Len(seq))

\* the for loop of [Symbol.dispose] over _addEventListenerCalls
RECURSIVE RemoveEach(_, _)
RemoveEach(ls, records) ==
    IF records = <<>> THEN ls
    ELSE RemoveEach(performance_removeEventListener(ls, Head(records).type,
                        Head(records).listener, Head(records).options),
                    Tail(records))

(***************************************************************************)
(* Operations of an adapter                                                *)
(***************************************************************************)
Op(op, self) == [NoLast EXCEPT !.op = op, !.self = self]

\* a bug: an adapter whose listeners were removed by its teardown ignores
\* the call
Mark_closed(a, markName, startTime) ==
    /\ entries' = IF /\ calls[a] # <<>>
                     /\ \A i \in 1..Len(calls[a]) :
                           Registration(calls[a][i].type,
                                        calls[a][i].listener,
                                        calls[a][i].options) \notin listeners
                  THEN entries
                  ELSE performance_mark(entries, _prefixName(a, markName),
                                        startTime, a, markName)
    /\ last' = [Op("mark", a) EXCEPT
                  !.name = markName,
                  !.fwd = << NameCall("mark", _prefixName(a, markName)) >>]
    /\ UNCHANGED <<randomId, now, listeners, calls, owned>>

\* mark(markName, {startTime}?)
Mark(a, markName, startTime) ==
    /\ entries' = performance_mark(entries, _prefixName(a, markName),
                                   startTime, a, markName)
    /\ last' = [Op("mark", a) EXCEPT
                  !.name = markName,
                  !.fwd = << NameCall("mark", _prefixName(a, markName)) >>]
    /\ UNCHANGED <<randomId, now, listeners, calls, owned>>

\* mark(markName, {detail})
MarkDetail(a, markName, detail) ==
    /\ entries' = performance_markDetail(entries, _prefixName(a, markName),
                                         detail, a, markName)
    /\ last' = [Op("mark", a) EXCEPT
                  !.name = markName,
                  !.fwd = << NameCall("mark", _prefixName(a, markName)) >>]
    /\ UNCHANGED <<randomId, now, listeners, calls, owned>>

\* a bug: the start mark is handed over under its logical name
measureArgs_rawstart(a, measureName, startMarkOrOptions, endMark) ==
    [name  |-> _prefixName(a, measureName),
     start |-> startMarkOrOptions,
     end   |-> IF Truthy(endMark) THEN _prefixName(a, endMark)
               ELSE Undefined]

\* what measure() hands to the registry
measureArgs(a, measureName, startMarkOrOptions, endMark) ==
    [name  |-> _prefixName(a, measureName),
     start |-> IF startMarkOrOptions.kind = "string"
               THEN StartString(_prefixName(a, startMarkOrOptions.name))
               ELSE startMarkOrOptions,
     end   |-> IF Truthy(endMark) THEN _prefixName(a, endMark)
               ELSE Undefined]

\* measure(measureName, startMarkOrOptions?, endMark?)
Measure(a, measureName, startMarkOrOptions, endMark) ==
    LET args == measureArgs(a, measureName, startMarkOrOptions, endMark)
        res  == performance_measure(entries, args.name, args.start, args.end,
                                    a, measureName)
    IN /\ entries' = IF res.throws THEN entries
                     ELSE Append(entries, res.entry)
       /\ last' = [Op("measure", a) EXCEPT
                     !.name = measureName,
                     !.start = startMarkOrOptions,
                     !.end = endMark,
                     !.fwd = << [NoCall EXCEPT !.fn = "measure",
                                   !.name = args.name, !.start = args.start,
                                   !.end = args.end] >>,
                     !.err = res.throws]
       /\ UNCHANGED <<randomId, now, listeners, calls, owned>>

\* clearMarks(markName?)
ClearMarks(a, markName) ==
    LET res == clearMarks(a, entries, markName)
    IN /\ entries' = res.es
       /\ last' = [Op("clearMarks", a) EXCEPT
                     !.name = markName, !.fwd = res.fwd]
       /\ UNCHANGED <<randomId, now, listeners, calls, owned>>

\* clearMeasures(measureName?)
ClearMeasures(a, measureName) ==
    LET res == clearMeasures(a, entries, measureName)
    IN /\ entries' = res.es
       /\ last' = [Op("clearMeasures", a) EXCEPT
                     !.name = measureName, !.fwd = res.fwd]
       /\ UNCHANGED <<randomId, now, listeners, calls, owned>>

\* a bug: the names are stripped on the registry's own entries
GetEntries_inplace(a) ==
    /\ entries' = [i \in 1..Len(entries) |->
                     IF _isScopedName(a, entries[i].name)
                     THEN [entries[i] EXCEPT
                             !.name = _unprefixName(a, entries[i].name)]
                     ELSE entries[i]]
    /\ last' = [Op("getEntries", a) EXCEPT
                  !.fwd = << NameCall("getEntries", Undefined) >>]
    /\ UNCHANGED <<randomId, now, listeners, calls, owned>>

\* getEntries()
GetEntries(a) ==
    /\ last' = [Op("getEntries", a) EXCEPT
                  !.fwd = << NameCall("getEntries", Undefined) >>]
    /\ UNCHANGED <<randomId, entries, now, listeners, calls, owned>>

\* getEntriesByType(type)
GetEntriesByType(a, type) ==
    /\ last' = [Op("getEntriesByType", a) EXCEPT
                  !.type = type,
                  !.fwd = << [NoCall EXCEPT !.fn = "getEntriesByType",
                                            !.type = type] >>]
    /\ UNCHANGED <<randomId, entries, now, listeners, calls, owned>>

\* getEntriesByName(name, type?)
GetEntriesByName(a, name, type) ==
    /\ last' = [Op("getEntriesByName", a) EXCEPT
                  !.name = name, !.type = type,
                  !.fwd = << [NoCall EXCEPT !.fn = "getEntriesByName",
                                !.name = _prefixName(a, name),
                                !.type = type] >>]
    /\ UNCHANGED <<randomId, entries, now, listeners, calls, owned>>

\* a bug: the call is forwarded only when it adds a record
AddEventListener_guarded(a, type, listener, options) ==
    LET record == listener # Null
                  /\ _findListenerIndex(a, type, listener, options) = 0
    IN /\ calls' = IF record
                   THEN [calls EXCEPT ![a] = Append(@,
                           [type |-> type, listener |-> listener,
                            options |-> normalizeEventListenerOptions(options)])]
                   ELSE calls
       /\ listeners' = IF record
                       THEN performance_addEventListener(listeners, type,
                                                         listener, options)
                       ELSE listeners
       /\ owned' = IF record
                   THEN [owned EXCEPT ![a] =
                           @ \cup { Registration(type, listener, options) }]
                   ELSE owned
       /\ last' = [Op("addEventListener", a) EXCEPT
                     !.type = type, !.listener = listener,
                     !.options = options,
                     !.fwd = IF record
                             THEN << ListenerCall("addEventListener", type,
                                                  listener, options) >>
                             ELSE <<>>]
       /\ UNCHANGED <<randomId, entries, now>>

\* addEventListener(type, listener, options?)
AddEventListener(a, type, listener, options) ==
    LET record == listener # Null
                  /\ _findListenerIndex(a, type, listener, options) = 0
    IN /\ calls' = IF record
                   THEN [calls EXCEPT ![a] = Append(@,
                           [type |-> type, listener |-> listener,
                            options |-> normalizeEventListenerOptions(options)])]
                   ELSE calls
       /\ listeners' = performance_addEventListener(listeners, type,
                                                    listener, options)
       /\ owned' = IF listener = Null THEN owned
                   ELSE [owned EXCEPT ![a] =
                           @ \cup { Registration(type, listener, options) }]
       /\ last' = [Op("addEventListener", a) EXCEPT
                     !.type = type, !.listener = listener,
                     !.options = options,
                     !.fwd = << ListenerCall("addEventListener", type,
                                             listener, options) >>]
       /\ UNCHANGED <<randomId, entries, now>>

\* removeEventListener(type, listener, options?)
RemoveEventListener(a, type, listener, options) ==
    LET listenerIndex == _findListenerIndex(a, type, listener, options)
    IN /\ calls' = IF listenerIndex # 0
                   THEN [calls EXCEPT ![a] = Splice(@, listenerIndex)]
                   ELSE calls
       /\ listeners' = performance_removeEventListener(listeners, type,
                                                       listener, options)
       /\ owned' = [owned EXCEPT ![a] =
                      @ \ { Registration(type, listener, options) }]
       /\ last' = [Op("removeEventListener", a) EXCEPT
                     !.type = type, !.listener = listener,
                     !.options = options,
                     !.fwd = << ListenerCall("removeEventListener", type,
                                             listener, options) >>]
       /\ UNCHANGED <<randomId, entries, now>>

\* dispatchEvent(event)
DispatchEvent(a, type) ==
    /\ last' = [Op("dispatchEvent", a) EXCEPT
                  !.type = type,
                  !.fwd = << [NoCall EXCEPT !.fn = "dispatchEvent",
                                            !.type = type] >>]
    /\ UNCHANGED <<randomId, entries, now, listeners, calls, owned>>

\* get timeOrigin
TimeOrigin(a) ==
    /\ last' = [Op("timeOrigin", a) EXCEPT
                  !.fwd = << [NoCall EXCEPT !.fn = "timeOrigin"] >>]
    /\ UNCHANGED <<randomId, entries, now, listeners, calls, owned>>

\* now()
Now(a) ==
    /\ last' = [Op("now", a) EXCEPT
                  !.fwd = << [NoCall EXCEPT !.fn = "now"] >>]
    /\ UNCHANGED <<randomId, entries, now, listeners, calls, owned>>

\* toJSON()
ToJSON(a) ==
    /\ last' = [Op("toJSON", a) EXCEPT
                  !.fwd = << [NoCall EXCEPT !.fn = "toJSON"] >>]
    /\ UNCHANGED <<randomId, entries, now, listeners, calls, owned>>

\* a bug: the listeners are unsubscribed before the entries are deleted
Dispose_listenersFirst(a) ==
    LET marks    == clearMarks(a, entries, Undefined)
        measures == clearMeasures(a, marks.es, Undefined)
    IN /\ entries' = measures.es
       /\ listeners' = RemoveEach(listeners, calls[a])
       /\ last' = [Op("dispose", a) EXCEPT
                     !.fwd = [i \in 1..Len(calls[a]) |->
                                ListenerCall("removeEventListener",
                                             calls[a][i].type,
                                             calls[a][i].listener,
                                             calls[a][i].options)]
                             \o marks.fwd \o measures.fwd]
       /\ UNCHANGED <<randomId, now, calls, owned>>

\* a bug: each teardown takes one record off the bookkeeping and
\* unsubscribes only that one
Dispose_shift(a) ==
    LET marks    == clearMarks(a, entries, Undefined)
        measures == clearMeasures(a, marks.es, Undefined)
        first    == SubSeq(calls[a], 1, IF calls[a] = <<>> THEN 0 ELSE 1)
    IN /\ entries' = measures.es
       /\ listeners' = RemoveEach(listeners, first)
       /\ calls' = [calls EXCEPT
                      ![a] = SubSeq(calls[a], Len(first) + 1, Len(calls[a]))]
       /\ last' = [Op("dispose", a) EXCEPT
                     !.fwd = marks.fwd \o measures.fwd \o
                             [i \in 1..Len(first) |->
                                ListenerCall("removeEventListener",
                                             first[i].type,
                                             first[i].listener,
                                             first[i].options)]]
       /\ UNCHANGED <<randomId, now, owned>>

\* [Symbol.dispose]()
Dispose(a) ==
    LET marks    == clearMarks(a, entries, Undefined)
        measures == clearMeasures(a, marks.es, Undefined)
    IN /\ entries' = measures.es
       /\ listeners' = RemoveEach(listeners, calls[a])
       /\ last' = [Op("dispose", a) EXCEPT
                     !.repeated = (last.op = "dispose" /\ last.self = a),
                     !.fwd = marks.fwd \o measures.fwd \o
                             [i \in 1..Len(calls[a]) |->
                                ListenerCall("removeEventListener",
                                             calls[a][i].type,
                                             calls[a][i].listener,
                                             calls[a][i].options)]]
       /\ UNCHANGED <<randomId, now, calls, owned>>

(***************************************************************************)
(* Code that bypasses the adapters                                         *)
(***************************************************************************)
RegMark(name, startTime) ==
    /\ entries' = performance_mark(entries, name, startTime, Direct, name)
    /\ last' = [Op("mark", Direct) EXCEPT !.name = name]
    /\ UNCHANGED <<randomId, now, listeners, calls, owned>>

RegMeasure(name) ==
    LET res == performance_measure(entries, name, StartUndefined, Undefined,
                                   Direct, name)
    IN /\ entries' = Append(entries, res.entry)
       /\ last' = [Op("measure", Direct) EXCEPT !.name = name]
       /\ UNCHANGED <<randomId, now, listeners, calls, owned>>

RegAddEventListener(type, listener, options) ==
    /\ listeners' = performance_addEventListener(listeners, type, listener,
                                                 options)
    /\ owned' = [owned EXCEPT ![Direct] =
                   @ \cup { Registration(type, listener, options) }]
    /\ last' = [Op("addEventListener", Direct) EXCEPT
                  !.type = type, !.listener = listener, !.options = options]
    /\ UNCHANGED <<randomId, entries, now, calls>>

RegRemoveEventListener(type, listener, options) ==
    /\ listeners' = performance_removeEventListener(listeners, type, listener,
                                                    options)
    /\ owned' = [owned EXCEPT ![Direct] =
                   @ \ { Registration(type, listener, options) }]
    /\ last' = [Op("removeEventListener", Direct) EXCEPT
                  !.type = type, !.listener = listener, !.options = options]
    /\ UNCHANGED <<randomId, entries, now, calls>>

\* the registry's clock advances
Tick ==
    /\ now' = now + 1
    /\ UNCHANGED <<randomId, entries, listeners, calls, owned, last>>

RegDispatchEvent(type) ==
    /\ last' = [Op("dispatchEvent", Direct) EXCEPT !.type = type]
    /\ UNCHANGED <<randomId, entries, now, listeners, calls, owned>>

(***************************************************************************)
(* Specifications                                                          *)
(***************************************************************************)
\* two adapters on one registry, constructed with different identifiers:
\* unrelated ones, or one identifier a prefix of the other
IdAssignments ==
    { [A |-> <<"s">>, B |-> <<"c">>], [A |-> <<"s">>, B |-> <<"s", ":">>] }

Init ==
    /\ randomId \in IdAssignments
    /\ entries = <<>>
    /\ now = 0
    /\ listeners = {}
    /\ calls = [a \in Adapters |-> <<>>]
    /\ owned = [p \in Adapters \cup {Direct} |-> {}]
    /\ last = NoLast

OptionalNames == LogicalNames \cup {Undefined}

OptionalTypes == EntryTypes \cup {"undefined"}

\* room in the registry's buffer
Room == Len(entries) < MaxEntries

\* names and scopes: marks, measures, deletions, reads and teardown
DoMark == \E a \in Adapters, n \in EntryNames : Room /\ Mark(a, n, NoTime)

DoMeasure ==
    \E a \in Adapters, n \in EntryNames :
        Room /\ Measure(a, n, StartUndefined, Undefined)

DoClearMarks == \E a \in Adapters, n \in OptionalNames : ClearMarks(a, n)

DoClearMeasures ==
    \E a \in Adapters, n \in OptionalNames : ClearMeasures(a, n)

DoGetEntries == \E a \in Adapters : GetEntries(a)

DoGetEntriesByType ==
    \E a \in Adapters, t \in EntryTypes : GetEntriesByType(a, t)

DoGetEntriesByName ==
    \E a \in Adapters, n \in LogicalNames, t \in OptionalTypes :
        GetEntriesByName(a, n, t)

DoDispose == \E a \in Adapters : Dispose(a)

DoRegMark == \E n \in RawNames : Room /\ RegMark(n, NoTime)

DoRegMeasure == \E n \in RawNames : Room /\ RegMeasure(n)

Next ==
    \/ DoMark
    \/ DoMeasure
    \/ DoClearMarks
    \/ DoClearMeasures
    \/ DoGetEntries
    \/ DoGetEntriesByType
    \/ DoGetEntriesByName
    \/ DoDispose
    \/ DoRegMark
    \/ DoRegMeasure

Spec == Init /\ [][Next]_vars

\* timing: adapter A marks and measures while adapter B and code that
\* bypasses the adapters create marks under the same logical names
TimedRoom == Len(entries) < MaxTimed

TimedMark ==
    \E n \in TimingNames, t \in OwnTimes : TimedRoom /\ Mark("A", n, t)

TimedForeignMark ==
    \E n \in TimingNames, t \in ForeignTimes :
        TimedRoom /\ (Mark("B", n, t) \/ RegMark(n, t))

TimedMeasure ==
    \E s \in TimingNames : \E e \in TimingNames \ {s} :
        TimedRoom /\ Measure("A", MeasureName, StartString(s), e)

TimedClear ==
    \/ \E n \in TimingNames : ClearMarks("A", n)
    \/ ClearMeasures("A", Undefined)

NextTiming ==
    \/ TimedMark
    \/ TimedForeignMark
    \/ TimedMeasure
    \/ TimedClear

SpecTiming == Init /\ [][NextTiming]_vars

\* listeners: adapter A subscribes callback f with every form of options,
\* adapter B and code that bypasses the adapters subscribe too
CallsRoom(a, type, listener, options) ==
    \/ Len(calls[a]) < MaxCalls
    \/ listener = Null
    \/ _findListenerIndex(a, type, listener, options) # 0

DoAddEventListener ==
    \/ \E t \in EventTypes, l \in {"f", Null}, o \in OptionsForms :
          CallsRoom("A", t, l, o) /\ AddEventListener("A", t, l, o)
    \/ \E t \in EventTypes :
          /\ CallsRoom("B", t, "f", OptUndefined)
          /\ AddEventListener("B", t, "f", OptUndefined)

DoRemoveEventListener ==
    \/ \E t \in EventTypes, l \in {"f", Null}, o \in OptionsForms :
          RemoveEventListener("A", t, l, o)
    \/ \E t \in EventTypes : RemoveEventListener("B", t, "f", OptUndefined)

DoDispatchEvent == \E a \in Adapters, t \in EventTypes : DispatchEvent(a, t)

DoRegAddEventListener ==
    \E t \in EventTypes, l \in {"f", "g"} :
        RegAddEventListener(t, l, OptUndefined)

DoRegRemoveEventListener ==
    \E t \in EventTypes, l \in {"f", "g"} :
        RegRemoveEventListener(t, l, OptUndefined)

DoRegDispatchEvent == \E t \in EventTypes : RegDispatchEvent(t)

NextListeners ==
    \/ DoAddEventListener
    \/ DoRemoveEventListener
    \/ DoDispatchEvent
    \/ DoDispose
    \/ DoRegAddEventListener
    \/ DoRegRemoveEventListener
    \/ DoRegDispatchEvent

SpecListeners == Init /\ [][NextListeners]_vars

\* interleaving: the two adapters mark, measure and delete under one and
\* the same logical name
SharedName == <<"m">>

InterleavedMark == \E a \in Adapters : Room /\ Mark(a, SharedName, NoTime)

InterleavedMeasure ==
    \E a \in Adapters :
        Room /\ Measure(a, SharedName, StartUndefined, Undefined)

InterleavedClear ==
    \E a \in Adapters, n \in {Undefined, SharedName} :
        ClearMarks(a, n) \/ ClearMeasures(a, n)

NextInterleaved ==
    \/ InterleavedMark
    \/ InterleavedMeasure
    \/ InterleavedClear

SpecInterleaved == Init /\ [][NextInterleaved]_vars

\* reads: the adapters read while the registry holds entries of both and a
\* listener subscribed through one of them
ReadsSubscribe ==
    \E a \in Adapters, t \in EventTypes :
        /\ CallsRoom(a, t, "f", OptUndefined)
        /\ AddEventListener(a, t, "f", OptUndefined)

NextReads ==
    \/ InterleavedMark
    \/ InterleavedMeasure
    \/ ReadsSubscribe
    \/ DoGetEntries
    \/ DoGetEntriesByType
    \/ DoGetEntriesByName

SpecReads == Init /\ [][NextReads]_vars

\* clock: time passes while the adapters mark and read the clock, the time
\* origin and the serialization
DoTick == now < MaxNow /\ Tick

DoTimeOrigin == \E a \in Adapters : TimeOrigin(a)

DoNow == \E a \in Adapters : Now(a)

DoToJSON == \E a \in Adapters : ToJSON(a)

NextClock ==
    \/ DoTick
    \/ DoTimeOrigin
    \/ DoNow
    \/ DoToJSON
    \/ InterleavedMark

SpecClock == Init /\ [][NextClock]_vars

\* errors: the adapters measure from a start mark that they, the other
\* adapter or code that bypasses the adapters may or may not have created
FailingMeasure ==
    \E a \in Adapters, s \in LogicalNames :
        /\ Measure(a, MeasureName, StartString(s), Undefined)
        /\ Len(entries') <= MaxEntries

NextErrors ==
    \/ DoMark
    \/ DoRegMark
    \/ DoClearMarks
    \/ FailingMeasure

SpecErrors == Init /\ [][NextErrors]_vars

\* teardown: an adapter that holds marks, measures and two subscriptions
\* is torn down
TeardownSubscribe ==
    \E t \in EventTypes, l \in {"f", "g"} :
        /\ CallsRoom("A", t, l, OptUndefined)
        /\ AddEventListener("A", t, l, OptUndefined)

NextTeardown ==
    \/ InterleavedMark
    \/ InterleavedMeasure
    \/ TeardownSubscribe
    \/ DoDispose

SpecTeardown == Init /\ [][NextTeardown]_vars

\* calling forms: adapter A measures once, in every calling form of
\* measure(), among marks of its own, of adapter B and of code that
\* bypasses the adapters, all under one logical name
StartForms ==
    { StartUndefined, StartString(SharedName),
      StartObject(Undefined, Undefined), StartObject(SharedName, Undefined),
      StartObject(Undefined, SharedName), StartObject(SharedName, SharedName) }

EndForms == { Undefined, <<>>, SharedName }

FormsMark ==
    \/ \E t \in OwnTimes : Room /\ Mark("A", SharedName, t)
    \/ \E t \in ForeignTimes :
          Room /\ (Mark("B", SharedName, t) \/ RegMark(SharedName, t))

FormsMeasure ==
    \E s \in StartForms, e \in EndForms :
        /\ \A i \in 1..Len(entries) : entries[i].entryType # "measure"
        /\ Measure("A", MeasureName, s, e)

NextForms ==
    \/ FormsMark
    \/ FormsMeasure

SpecForms == Init /\ [][NextForms]_vars

\* copies: the adapters read a registry that holds marks with and without
\* detail and measures, created through both adapters and directly
Details == {"payload"}

CopiesMarkDetail ==
    \E a \in Adapters, d \in Details : Room /\ MarkDetail(a, SharedName, d)

NextCopies ==
    \/ DoMark
    \/ CopiesMarkDetail
    \/ DoMeasure
    \/ DoRegMark
    \/ DoGetEntries
    \/ DoGetEntriesByType

SpecCopies == Init /\ [][NextCopies]_vars

\* naming: a name is scoped and unscoped again, for every name over the
\* letters of the separator and one other letter and for identifiers with
\* and without those letters
Letters == {"m", ":"}

RECURSIVE NamesUpTo(_)
NamesUpTo(n) ==
    IF n = 0 THEN { <<>> }
    ELSE NamesUpTo(n - 1)
         \cup { Append(s, c) : s \in NamesUpTo(n - 1), c \in Letters }

NameIds == ScopeIds \cup { <<":", ":">> }

InitNames ==
    /\ randomId \in [Adapters -> NameIds]
    /\ entries = <<>>
    /\ now = 0
    /\ listeners = {}
    /\ calls = [a \in Adapters |-> <<>>]
    /\ owned = [p \in Adapters \cup {Direct} |-> {}]
    /\ last = NoLast

\* _unprefixName(_prefixName(name)): the scoped name and what is left of
\* it after the prefix is taken away again
RoundTrip(a, name) ==
    /\ last' = [Op("_prefixName", a) EXCEPT
                  !.name = name,
                  !.fwd = << NameCall("_prefixName", _prefixName(a, name)),
                             NameCall("_unprefixName",
                                 _unprefixName(a, _prefixName(a, name))) >>]
    /\ UNCHANGED <<randomId, entries, now, listeners, calls, owned>>

NextNames ==
    \E a \in Adapters, n \in NamesUpTo(MaxNameLen) : RoundTrip(a, n)

SpecNames == InitNames /\ [][NextNames]_vars

\* reuse: each adapter subscribes a callback of its own, is torn down, and
\* is used again
OwnCallback == [A |-> "f", B |-> "g"]

ReuseSubscribe ==
    \E a \in Adapters, t \in EventTypes :
        /\ CallsRoom(a, t, OwnCallback[a], OptUndefined)
        /\ AddEventListener(a, t, OwnCallback[a], OptUndefined)

NextReuse ==
    \/ ReuseSubscribe
    \/ InterleavedMark
    \/ InterleavedMeasure
    \/ InterleavedClear
    \/ DoGetEntries
    \/ DoDispose

SpecReuse == Init /\ [][NextReuse]_vars

(***************************************************************************)
(* Vocabulary of the properties                                            *)
(***************************************************************************)
Range(seq) == { seq[i] : i \in DOMAIN seq }

\* the prefix scopeId + "::" of an adapter, written out
ScopePrefix(a) == randomId[a] \o <<":", ":">>

\* neither adapter's prefix is a prefix of the other's
Disjoint(a, b) ==
    /\ ~ StartsWith(ScopePrefix(a), ScopePrefix(b))
    /\ ~ StartsWith(ScopePrefix(b), ScopePrefix(a))

IsRead(op) == op \in {"getEntries", "getEntriesByType", "getEntriesByName"}

\* everything the three reads of adapter a can return in this state
ReadResults(a) ==
    Range(getEntries(a))
    \cup UNION { Range(getEntriesByType(a, t)) : t \in EntryTypes }
    \cup UNION { Range(getEntriesByName(a, n, t)) :
                   n \in LogicalNames, t \in OptionalTypes }

\* the entries of es that satisfy Keep(_), in order
Kept(es, Keep(_)) == SelectSeq(es, Keep)

(***************************************************************************)
(* C1                                                                      *)
(***************************************************************************)
\* C1 as stated: for adapters with different scope identifiers, a mark
\* created through one is never in getEntries() of the other.
C1_AsStated ==
    \A a \in Adapters, b \in Adapters :
        randomId[a] # randomId[b] =>
            \A e \in Range(getEntries(b)) :
                ~ (e.by = a /\ e.entryType = "mark")

\* C1 amended: when neither prefix scopeId + "::" is a prefix of the other,
\* a mark created through one adapter is never in getEntries() of the other.
C1_Isolation ==
    \A a \in Adapters, b \in Adapters :
        (a # b /\ Disjoint(a, b)) =>
            \A e \in Range(getEntries(b)) :
                ~ (e.by = a /\ e.entryType = "mark")

C1_Witness ==
    \E a \in Adapters, b \in Adapters :
        /\ a # b /\ Disjoint(a, b)
        /\ last.op = "getEntries" /\ last.self = b
        /\ getEntries(b) # <<>>
        /\ \E e \in Range(entries) : e.by = a /\ e.entryType = "mark"

ClearAllStep(a, op) ==
    last'.op = op /\ last'.self = a /\ last'.name = Undefined

\* C3 as stated: clearMarks() (clearMeasures()) without argument removes
\* exactly the marks (measures) created through that adapter; everything
\* else stays.
C3_AsStated ==
    [][ \A a \in Adapters :
          /\ ClearAllStep(a, "clearMarks") =>
               entries' = Kept(entries,
                   LAMBDA e : ~ (e.by = a /\ e.entryType = "mark"))
          /\ ClearAllStep(a, "clearMeasures") =>
               entries' = Kept(entries,
                   LAMBDA e : ~ (e.by = a /\ e.entryType = "measure")) ]_vars

\* C3 amended: clearMarks() (clearMeasures()) without argument removes
\* exactly the marks (measures) whose registry name starts with the
\* adapter's prefix scopeId + "::", which includes every mark (measure)
\* created through the adapter; every other entry stays, in order.
C3_ClearsScope ==
    [][ \A a \in Adapters :
          /\ ClearAllStep(a, "clearMarks") =>
               /\ entries' = Kept(entries,
                      LAMBDA e : ~ (e.entryType = "mark"
                                    /\ StartsWith(e.name, ScopePrefix(a))))
               /\ \A e \in Range(entries') :
                      ~ (e.by = a /\ e.entryType = "mark")
          /\ ClearAllStep(a, "clearMeasures") =>
               /\ entries' = Kept(entries,
                      LAMBDA e : ~ (e.entryType = "measure"
                                    /\ StartsWith(e.name, ScopePrefix(a))))
               /\ \A e \in Range(entries') :
                      ~ (e.by = a /\ e.entryType = "measure") ]_vars

C3_Witness ==
    \E a \in Adapters :
        /\ last.op \in {"clearMarks", "clearMeasures"}
        /\ last.self = a /\ last.name = Undefined
        /\ last.fwd # <<>>
        /\ entries # <<>>

(***************************************************************************)
(* C4                                                                      *)
(***************************************************************************)
DisposeStep(a) == last'.op = "dispose" /\ last'.self = a

\* C4 as stated: after teardown of an adapter the registry holds no entry
\* created through it, and every entry created through another adapter is
\* still there.
C4_AsStated ==
    [][ \A a \in Adapters :
          DisposeStep(a) =>
            /\ \A e \in Range(entries') : e.by # a
            /\ \A b \in Adapters \ {a} :
                  Kept(entries', LAMBDA e : e.by = b)
                    = Kept(entries, LAMBDA e : e.by = b) ]_vars

\* C4 amended: after teardown of an adapter the registry holds no entry
\* created through it, and every entry created through another adapter is
\* still there when neither prefix scopeId + "::" is a prefix of the other.
C4_Teardown ==
    [][ \A a \in Adapters :
          DisposeStep(a) =>
            /\ \A e \in Range(entries') : e.by # a
            /\ \A b \in Adapters \ {a} :
                  Disjoint(a, b) =>
                    Kept(entries', LAMBDA e : e.by = b)
                      = Kept(entries, LAMBDA e : e.by = b) ]_vars

C4_Witness ==
    \E a \in Adapters, b \in Adapters :
        /\ a # b /\ Disjoint(a, b)
        /\ last.op = "dispose" /\ last.self = a
        /\ last.fwd # <<>>
        /\ \E e \in Range(entries) : e.by = b

(***************************************************************************)
(* C5                                                                      *)
(***************************************************************************)
\* C5: teardown of adapter a leaves none of the listeners added and not
\* removed through a registered (a dispatch of their event type no longer
\* invokes them), and every other listener that was added directly to the
\* registry and is registered stays registered and invoked.
C5_ListenersAfterTeardown ==
    [][ \A a \in Adapters :
          DisposeStep(a) =>
            /\ \A r \in owned[a] :
                  r \notin performance_dispatchEvent(listeners', r.type)
            /\ \A r \in (owned[Direct] \cap listeners) \ owned[a] :
                  r \in performance_dispatchEvent(listeners', r.type) ]_vars

(***************************************************************************)
(* C6                                                                      *)
(***************************************************************************)
\* C6: teardown of adapter a removes no registration that was made through
\* another adapter or directly on the registry, also when a subscribed the
\* same callback for the same event type.
C6_OthersUntouched ==
    [][ \A a \in Adapters :
          DisposeStep(a) =>
            \A p \in (Adapters \cup {Direct}) \ {a} :
                \A r \in owned[p] \cap listeners : r \in listeners' ]_vars

TwoMarks(a, b, n) ==
    /\ Len(entries) = 2
    /\ entries[1].by = a /\ entries[2].by = b
    /\ \A i \in 1..2 : entries[i].entryType = "mark" /\ entries[i].lname = n

\* what C8 promises of that state
OneEach(a, b, n) ==
    /\ entries[1].name = randomId[a] \o <<":", ":">> \o n
    /\ entries[2].name = randomId[b] \o <<":", ":">> \o n
    /\ entries[1].name # entries[2].name
    /\ Len(performance_getEntries(entries)) = 2
    /\ \A c \in {a, b} :
          Len(getEntries(c)) = 1 /\ getEntries(c)[1].name = n

\* C8 as stated: two adapters with different identifiers mark the same
\* logical name; the registry holds the two scoped entries and each
\* adapter's getEntries() returns exactly one entry, under the logical name.
C8_AsStated ==
    \A a \in Adapters, b \in Adapters, n \in LogicalNames :
        (randomId[a] # randomId[b] /\ TwoMarks(a, b, n)) => OneEach(a, b, n)

\* C8 amended: the same, for two adapters neither of whose prefixes
\* scopeId + "::" is a prefix of the other's.
C8_TwoScopes ==
    \A a \in Adapters, b \in Adapters, n \in LogicalNames :
        (a # b /\ Disjoint(a, b) /\ TwoMarks(a, b, n)) => OneEach(a, b, n)

C8_Witness ==
    \E a \in Adapters, b \in Adapters :
        /\ a # b /\ Disjoint(a, b) /\ TwoMarks(a, b, <<"m">>)
        /\ last.op = "mark" /\ last.self = b

(***************************************************************************)
(* C9                                                                      *)
(***************************************************************************)
\* the startTime of the most recent mark that was created through adapter
\* a under the logical name n, NoTime when there is none
OwnTimestamp(a, n) ==
    LET hits == { i \in 1..Len(entries) :
                    /\ entries[i].entryType = "mark"
                    /\ entries[i].by = a /\ entries[i].lname = n }
    IN IF hits = {} THEN NoTime
       ELSE entries[CHOOSE i \in hits : \A j \in hits : j <= i].startTime

\* the last operation was a successful measure(name, 'mark-a', 'mark-b')
\* through adapter a
MeasuredBetweenMarks(a) ==
    /\ last.op = "measure" /\ last.self = a /\ ~ last.err
    /\ last.start.kind = "string" /\ Truthy(last.start.name)
    /\ Truthy(last.end)

\* C9: measure(name, 'mark-a', 'mark-b') through adapter a returns a measure
\* whose duration is the startTime of a's own mark-b minus the startTime of
\* a's own mark-a, whatever marks other adapters or direct callers of the
\* registry created under the same logical names.
C9_OwnMarks ==
    \A a \in Adapters :
        MeasuredBetweenMarks(a) =>
            LET measure == entries[Len(entries)]
                start == OwnTimestamp(a, last.start.name)
                end == OwnTimestamp(a, last.end)
            IN /\ measure.entryType = "measure" /\ measure.by = a
               /\ start # NoTime /\ end # NoTime
               /\ measure.startTime = start
               /\ measure.duration = end - start

C9_Witness ==
    \E a \in Adapters :
        /\ MeasuredBetweenMarks(a)
        /\ last.start.name # last.end
        /\ entries[Len(entries)].duration > 0
        /\ \E e \in Range(entries) :
              /\ e.entryType = "mark" /\ e.by # a
              /\ e.lname \in {last.start.name, last.end}
              /\ e.startTime # OwnTimestamp(a, e.lname)

(***************************************************************************)
(* C10                                                                     *)
(***************************************************************************)
\* C10 as stated: getEntriesByName(name, kind?) returns what the registry
\* returns for the scoped name, the names of the entries still scoped.
C10_AsStated ==
    \A a \in Adapters, n \in LogicalNames, t \in OptionalTypes :
        getEntriesByName(a, n, t)
          = performance_getEntriesByName(entries,
                randomId[a] \o <<":", ":">> \o n, t)

\* C10 amended: getEntriesByName(name, kind?) returns the entries the
\* registry returns for the scoped name, in the registry's order, each with
\* the scope prefix stripped from its name, as getEntries() does.
C10_Stripped ==
    \A a \in Adapters, n \in LogicalNames, t \in OptionalTypes :
        LET found == performance_getEntriesByName(entries,
                         randomId[a] \o <<":", ":">> \o n, t)
        IN getEntriesByName(a, n, t)
             = [i \in 1..Len(found) |-> [found[i] EXCEPT !.name = n]]

C10_Witness ==
    /\ last.op = "getEntriesByName"
    /\ last.self \in Adapters
    /\ getEntriesByName(last.self, last.name, last.type) # <<>>

(***************************************************************************)
(* C11                                                                     *)
(***************************************************************************)
\* the registration a bookkeeping record stands for
Recorded(record) ==
    Registration(record.type, record.listener, record.options)

\* C11: every record of an adapter's listener bookkeeping stands for a
\* registration the registry currently holds.
C11_BookkeepingHeld ==
    \A a \in Adapters : \A i \in 1..Len(calls[a]) :
        Recorded(calls[a][i]) \in listeners

(***************************************************************************)
(* C12                                                                     *)
(***************************************************************************)
IsDelete(call) == call.fn \in {"clearMarks", "clearMeasures"}

\* C12: every clearMarks / clearMeasures call an adapter forwards to the
\* registry, from clearMarks(name?), clearMeasures(name?) or teardown,
\* carries a name, and the name starts with the adapter's prefix
\* scopeId + "::".
C12_NeverBroad ==
    \A a \in Adapters :
        last.self = a =>
            \A i \in 1..Len(last.fwd) :
                IsDelete(last.fwd[i]) =>
                    /\ last.fwd[i].name # Undefined
                    /\ StartsWith(last.fwd[i].name, ScopePrefix(a))

C12_Witness ==
    /\ last.self \in Adapters
    /\ last.op = "dispose"
    /\ \E i \in 1..Len(last.fwd) : IsDelete(last.fwd[i])
    /\ entries # <<>>

(***************************************************************************)
(* C13                                                                     *)
(***************************************************************************)
\* the names and kinds of a list of entries, in order
Shape(es) == [i \in 1..Len(es) |-> <<es[i].name, es[i].entryType>>]

\* what adapter a observes through getEntries(), getEntriesByType() and
\* getEntriesByName() when the registry's buffer is es
Observed(a, es) ==
    [all    |-> Shape(_filterMap(a, performance_getEntries(es))),
     byType |-> [t \in EntryTypes |->
                   Shape(_filterMap(a, performance_getEntriesByType(es, t)))],
     byName |-> [n \in LogicalNames |->
                   [t \in OptionalTypes |->
                      Shape(_filterMap(a, performance_getEntriesByName(es,
                                _prefixName(a, n), t)))]]]

\* the registry as it would be with adapter a running alone: the entries
\* that carry a's prefix
Alone(a, es) == SelectSeq(es, LAMBDA e : _isScopedName(a, e.name))

\* a mark, measure, clearMarks or clearMeasures call through adapter b
WriteStep(b) ==
    /\ last'.self = b
    /\ last'.op \in {"mark", "measure", "clearMarks", "clearMeasures"}

\* the step of adapter a does to the entries of a's scope what the same
\* call does on a registry that holds nothing else
AsAlone(a) ==
    LET own == Alone(a, entries)
        args == measureArgs(a, last'.name, last'.start, last'.end)
        res == performance_measure(own, args.name, args.start, args.end,
                                   a, last'.name)
    IN /\ last'.op = "mark" =>
             Alone(a, entries') = performance_mark(own,
                 _prefixName(a, last'.name), NoTime, a, last'.name)
       /\ last'.op = "measure" =>
             /\ last'.err = res.throws
             /\ Alone(a, entries') = IF res.throws THEN own
                                     ELSE Append(own, res.entry)
       /\ last'.op = "clearMarks" =>
             Alone(a, entries') = clearMarks(a, own, last'.name).es
       /\ last'.op = "clearMeasures" =>
             Alone(a, entries') = clearMeasures(a, own, last'.name).es

\* C13 as stated: for two adapters with different scope identifiers, no
\* mark, measure, clearMarks or clearMeasures call through one changes what
\* the other observes through getEntries(), getEntriesByType() and
\* getEntriesByName().
C13_AsStated ==
    [][ \A a \in Adapters, b \in Adapters :
          (randomId[a] # randomId[b] /\ WriteStep(b)) =>
              Observed(a, entries') = Observed(a, entries) ]_vars

\* C13 amended: when neither prefix scopeId + "::" is a prefix of the
\* other, no mark, measure, clearMarks or clearMeasures call through one
\* adapter changes what the other observes through its reads, and every
\* such call changes the caller's own scope as it would with the caller
\* running alone.
C13_NonInterference ==
    [][ \A a \in Adapters, b \in Adapters :
          (a # b /\ Disjoint(a, b) /\ WriteStep(b)) =>
              /\ Observed(a, entries') = Observed(a, entries)
              /\ AsAlone(b) ]_vars

C13_Witness ==
    \E a \in Adapters, b \in Adapters :
        /\ a # b /\ Disjoint(a, b)
        /\ last.self = b /\ last.op \in {"clearMarks", "clearMeasures"}
        /\ last.fwd # <<>>
        /\ Observed(a, entries).all # <<>>

(***************************************************************************)
(* C14                                                                     *)
(***************************************************************************)
\* adapter a is called with clearMarks(name) or clearMeasures(name), the
\* name given
NamedClearStep(a, op) ==
    last'.op = op /\ last'.self = a /\ last'.name # Undefined

\* C14: clearMarks(name) (clearMeasures(name)) with any logical name given
\* removes exactly the marks (measures) whose registry name equals
\* scopeId + "::" + name; every other entry stays, in order.
C14_ClearByName ==
    [][ \A a \in Adapters :
          /\ NamedClearStep(a, "clearMarks") =>
               entries' = Kept(entries,
                   LAMBDA e : ~ (e.entryType = "mark"
                                 /\ e.name = ScopePrefix(a) \o last'.name))
          /\ NamedClearStep(a, "clearMeasures") =>
               entries' = Kept(entries,
                   LAMBDA e : ~ (e.entryType = "measure"
                                 /\ e.name = ScopePrefix(a) \o last'.name))
      ]_vars

(***************************************************************************)
(* C15                                                                     *)
(***************************************************************************)
\* C15: the subscribe calls through one adapter that the registry treats as
\* one registration (same event type, callback and effective capture flag,
\* whatever form the options had) leave one record in the adapter's listener
\* bookkeeping, and every record stores its options as {capture: boolean}.
C15_OneCanonicalRecord ==
    \A a \in Adapters :
        /\ \A i \in 1..Len(calls[a]), j \in 1..Len(calls[a]) :
              Recorded(calls[a][i]) = Recorded(calls[a][j]) => i = j
        /\ \A i \in 1..Len(calls[a]) :
              calls[a][i].options \in { OptObject("true"), OptObject("false") }

(***************************************************************************)
(* C16                                                                     *)
(***************************************************************************)
\* adapter a is called with removeEventListener(type, listener, options)
RemoveStep(a) == last'.op = "removeEventListener" /\ last'.self = a

\* the unsubscribe calls among the calls an operation forwarded
Unsubscribed(fwd) ==
    { Registration(fwd[i].type, fwd[i].listener, fwd[i].options) :
        i \in { j \in 1..Len(fwd) : fwd[j].fn = "removeEventListener" } }

\* C16: removeEventListener(type, listener, options) through an adapter
\* forwards the call with the same arguments and leaves no record of that
\* registration in the adapter's bookkeeping, in whatever form the options
\* of the subscribe call denoted the capture flag; a later teardown
\* forwards an unsubscribe only for registrations added and not removed
\* through the adapter.
C16_RemoveForgets ==
    [][ \A a \in Adapters :
          /\ RemoveStep(a) =>
               /\ last'.fwd = << ListenerCall("removeEventListener",
                                   last'.type, last'.listener,
                                   last'.options) >>
               /\ \A i \in 1..Len(calls'[a]) :
                     Recorded(calls'[a][i])
                       # Registration(last'.type, last'.listener,
                                      last'.options)
          /\ DisposeStep(a) => Unsubscribed(last'.fwd) \subseteq owned[a]
      ]_vars

(***************************************************************************)
(* C17                                                                     *)
(***************************************************************************)
\* adapter a is called with getEntries(), getEntriesByType() or
\* getEntriesByName()
ReadStep(a) == IsRead(last'.op) /\ last'.self = a

\* C17: getEntries(), getEntriesByType() and getEntriesByName() leave the
\* registry's entries, the registry's listener registrations and the
\* listener bookkeeping of every adapter as they were.
C17_ReadOnly ==
    [][ \A a \in Adapters :
          ReadStep(a) =>
            /\ entries' = entries
            /\ listeners' = listeners
            /\ calls' = calls ]_vars

C17_Witness ==
    /\ IsRead(last.op) /\ last.self \in Adapters
    /\ ReadResults(last.self) # {}
    /\ \E e \in Range(entries) : e.by # last.self
    /\ listeners # {}
    /\ calls[last.self] # <<>>

(***************************************************************************)
(* C18                                                                     *)
(***************************************************************************)
\* C18: at every moment toJSON(), now() and timeOrigin of every adapter
\* are what the registry's toJSON(), now() and timeOrigin are, so they are
\* the same for adapters with different scope identifiers.
C18_PassThrough ==
    \A a \in Adapters :
        /\ toJSON(a) = performance_toJSON
        /\ now_(a) = performance_now
        /\ timeOrigin(a) = performance_timeOrigin
        /\ \A b \in Adapters :
              toJSON(a) = toJSON(b) /\ timeOrigin(a) = timeOrigin(b)

C18_Witness ==
    /\ last.op \in {"toJSON", "now", "timeOrigin"}
    /\ last.self \in Adapters
    /\ performance_now > 0
    /\ entries # <<>>

(***************************************************************************)
(* C19                                                                     *)
(***************************************************************************)
\* adapter a is called with measure(name, startMark)
MeasureFromStep(a) ==
    /\ last'.op = "measure" /\ last'.self = a
    /\ last'.start.kind = "string" /\ last'.end = Undefined

\* the registry holds a mark that was created through party p under the
\* logical name n
HoldsMarkOf(p, n) ==
    \E e \in Range(entries) :
        e.entryType = "mark" /\ e.by = p /\ e.lname = n

\* the registry holds a mark under the registry name n
HoldsMarkNamed(n) ==
    \E e \in Range(entries) : e.entryType = "mark" /\ e.name = n

\* C19 as stated: measure(name, startMark) through adapter a fails with the
\* registry's error whenever the registry holds no mark that was created
\* through a under the name startMark, whatever marks others created; the
\* failed call adds no entry.
C19_AsStated ==
    [][ \A a \in Adapters :
          MeasureFromStep(a) =>
            /\ ~ HoldsMarkOf(a, last'.start.name) => last'.err
            /\ last'.err => entries' = entries ]_vars

\* C19 amended: measure(name, startMark) through adapter a fails with the
\* registry's error whenever the registry holds no mark named
\* scopeId + "::" + startMark, even when marks with the logical name
\* startMark exist in another scope or unscoped; the failed call adds no
\* entry.
C19_Propagates ==
    [][ \A a \in Adapters :
          MeasureFromStep(a) =>
            /\ ~ HoldsMarkNamed(ScopePrefix(a) \o last'.start.name)
                  => last'.err
            /\ last'.err => entries' = entries ]_vars

C19_Witness ==
    \E a \in Adapters :
        /\ last.op = "measure" /\ last.self = a /\ last.err
        /\ last.start.kind = "string" /\ last.end = Undefined
        /\ \E p \in (Adapters \cup {Direct}) \ {a} :
              HoldsMarkOf(p, last.start.name)

(***************************************************************************)
(* C20                                                                     *)
(***************************************************************************)
\* the names the adapter rewrites in a forwarded call: the name argument
\* and the start and end marks given as strings
NamesOf(call) ==
    { n \in { call.name, call.start.name, call.end } : n # Undefined }

DeletionsOf(a, fn, kind) ==
    LET scoped == Kept(entries,
                       LAMBDA e : /\ e.entryType = kind
                                  /\ StartsWith(e.name, ScopePrefix(a)))
    IN [i \in 1..Len(scoped) |-> NameCall(fn, scoped[i].name)]

\* one unsubscribe call per record of a's bookkeeping, in recording order
UnsubscriptionsOf(a) ==
    [i \in 1..Len(calls[a]) |->
        ListenerCall("removeEventListener", calls[a][i].type,
                     calls[a][i].listener, calls[a][i].options)]

\* the place of a forwarded call in the order of teardown
Rank(call) ==
    IF call.fn = "clearMarks" THEN 1
    ELSE IF call.fn = "clearMeasures" THEN 2 ELSE 3

\* C21: teardown forwards first the deletion of every mark of the scope,
\* then the deletion of every measure of the scope, then one unsubscribe per
\* recorded registration in recording order; no measure deletion comes
\* before a mark deletion and no unsubscribe before a deletion.
C21_TeardownOrder ==
    [][ \A a \in Adapters :
          DisposeStep(a) =>
            /\ last'.fwd = DeletionsOf(a, "clearMarks", "mark")
                           \o DeletionsOf(a, "clearMeasures", "measure")
                           \o UnsubscriptionsOf(a)
            /\ \A i \in 1..Len(last'.fwd), j \in 1..Len(last'.fwd) :
                  i < j => Rank(last'.fwd[i]) <= Rank(last'.fwd[j]) ]_vars

C21_Witness ==
    /\ last.op = "dispose" /\ last.self \in Adapters
    /\ \E i \in 1..Len(last.fwd) : last.fwd[i].fn = "clearMarks"
    /\ \E i \in 1..Len(last.fwd) : last.fwd[i].fn = "clearMeasures"
    /\ \E i \in 1..Len(last.fwd), j \in 1..Len(last.fwd) :
          /\ i < j
          /\ last.fwd[i].fn = "removeEventListener"
          /\ last.fwd[j].fn = "removeEventListener"
          /\ last.fwd[i].listener # last.fwd[j].listener

(***************************************************************************)
(* C22                                                                     *)
(***************************************************************************)
\* adapter a is called with measure(name, startRef?, endRef?)
MeasureStep(a) == last'.op = "measure" /\ last'.self = a

\* C22: measure(name, startRef, endRef) forwards one call: name in scoped
\* form; startRef in scoped form when it is a string and as it is when it
\* is an options object or undefined; endRef in scoped form whenever an
\* endRef is given, whatever string it is.  measure(n, {}, 'm') that
\* succeeds has the startTime of a's own mark m as its duration.
C22_Rewrites ==
    [][ \A a \in Adapters :
          MeasureStep(a) =>
            /\ last'.fwd =
                 << [NoCall EXCEPT
                       !.fn = "measure",
                       !.name = ScopePrefix(a) \o last'.name,
                       !.start = IF last'.start.kind = "string"
                                 THEN StartString(ScopePrefix(a)
                                                  \o last'.start.name)
                                 ELSE last'.start,
                       !.end = IF last'.end # Undefined
                               THEN ScopePrefix(a) \o last'.end
                               ELSE Undefined] >>
            /\ ( /\ last'.start = StartObject(Undefined, Undefined)
                 /\ Truthy(last'.end) /\ ~ last'.err )
               => entries'[Len(entries')].duration
                    = OwnTimestamp(a, last'.end) ]_vars

(***************************************************************************)
(* C27                                                                     *)
(***************************************************************************)
\* the mark names a call of measure() refers to as start and as end
StartRefOf(start) ==
    IF start.kind = "string" THEN start.name
    ELSE IF start.kind = "object" THEN start.start ELSE Undefined

EndRefOf(start, end) ==
    IF Truthy(end) THEN end
    ELSE IF start.kind = "object" THEN start.end ELSE Undefined

\* C27: a measure created through adapter a, in whatever calling form,
\* takes the time of every mark name it refers to from the most recent mark
\* that was created through a under that name.
C27_OwnMarksOnly ==
    \A a \in Adapters :
        (last.op = "measure" /\ last.self = a /\ ~ last.err) =>
            LET measure == entries[Len(entries)]
                startRef == StartRefOf(last.start)
                endRef == EndRefOf(last.start, last.end)
            IN /\ startRef # Undefined =>
                    /\ OwnTimestamp(a, startRef) # NoTime
                    /\ measure.startTime = OwnTimestamp(a, startRef)
               /\ endRef # Undefined =>
                    /\ OwnTimestamp(a, endRef) # NoTime
                    /\ measure.startTime + measure.duration
                         = OwnTimestamp(a, endRef)

(***************************************************************************)
(* C23                                                                     *)
(***************************************************************************)
\* the entries of es whose name carries a's prefix, in order, each with the
\* prefix cut off its name and every other field as it is
CopiesOf(a, es) ==
    LET scoped == Kept(es, LAMBDA e : StartsWith(e.name, ScopePrefix(a)))
    IN [i \in 1..Len(scoped) |->
          [scoped[i] EXCEPT
             !.name = SubSeq(scoped[i].name, Len(ScopePrefix(a)) + 1,
                             Len(scoped[i].name))]]

\* C23: getEntries() and getEntriesByType(kind) return one copy per
\* registry entry (of that kind) whose name carries the adapter's prefix,
\* in the registry's order; a copy has the kind, startTime, duration and
\* detail of its entry and the entry's name without the prefix.
C23_Copies ==
    \A a \in Adapters :
        /\ getEntries(a) = CopiesOf(a, entries)
        /\ \A t \in EntryTypes :
              getEntriesByType(a, t)
                = CopiesOf(a, Kept(entries, LAMBDA e : e.entryType = t))

C23_Witness ==
    /\ last.op \in {"getEntries", "getEntriesByType"}
    /\ last.self \in Adapters
    /\ \E e \in Range(getEntries(last.self)) : e.detail # Null
    /\ Len(getEntries(last.self)) < Len(entries)

(***************************************************************************)
(* C24                                                                     *)
(***************************************************************************)
\* the name holds the separator "::"
HasSeparator(name) == IndexOf(name, <<":", ":">>) # 0

\* C24: for a logical name n without the separator "::",
\* _unprefixName(_prefixName(n)) = n and _isScopedName(_prefixName(n)),
\* where _prefixName(n) = scopeId + "::" + n.
C24_RoundTrip ==
    \A a \in Adapters :
        ( /\ last.op = "_prefixName" /\ last.self = a
          /\ ~ HasSeparator(last.name) ) =>
            /\ last.fwd[1].name = randomId[a] \o <<":", ":">> \o last.name
            /\ last.fwd[2].name = last.name
            /\ _isScopedName(a, last.fwd[1].name)

C24_Witness ==
    /\ last.op = "_prefixName" /\ last.self \in Adapters
    /\ ~ HasSeparator(last.name)
    /\ Len(last.name) = 3
    /\ last.name[1] = ":"
    /\ last.fwd[2].name = last.name

(***************************************************************************)
(* C25                                                                     *)
(***************************************************************************)
\* adapter a has been torn down: the registry holds none of the
\* registrations a recorded, which only a's teardown removes when every
\* adapter subscribes a callback of its own and nobody unsubscribes
TornDown(a) ==
    /\ calls[a] # <<>>
    /\ \A i \in 1..Len(calls[a]) : Recorded(calls[a][i]) \notin listeners

\* adapter a is called with mark(n) or measure(n)
CreateStep(a) == last'.self = a /\ last'.op \in {"mark", "measure"}

\* the call is forwarded under scopeId + "::" + n, the registry appends the
\* entry, and a's getEntries() shows it under n
StillForwarded(a) ==
    LET scoped == randomId[a] \o <<":", ":">> \o last'.name
        seen == _filterMap(a, performance_getEntries(entries'))
    IN /\ Len(last'.fwd) = 1
       /\ last'.fwd[1].fn = last'.op /\ last'.fwd[1].name = scoped
       /\ Len(entries') = Len(entries) + 1
       /\ SubSeq(entries', 1, Len(entries)) = entries
       /\ entries'[Len(entries')].name = scoped
       /\ entries'[Len(entries')].entryType = last'.op
       /\ seen # <<>>
       /\ seen[Len(seen)]
            = [entries'[Len(entries')] EXCEPT !.name = last'.name]

\* an entry created through a leaves the registry in this step
Removed(a) ==
    \E e \in Range(entries) : e.by = a /\ e \notin Range(entries')

IsCleanup(op) == op \in {"clearMarks", "clearMeasures", "dispose"}

\* C25 as stated: after teardown of an adapter, mark(n) and measure(n)
\* through it are forwarded under scopeId + "::" + n and seen by its
\* getEntries(), and its entries leave the registry only by a clearMarks or
\* clearMeasures call or by a teardown of that adapter.
C25_AsStated ==
    [][ \A a \in Adapters :
          TornDown(a) =>
            /\ CreateStep(a) => StillForwarded(a)
            /\ Removed(a) =>
                 /\ IsCleanup(last'.op)
                 /\ last'.self \in Adapters
                 /\ last'.op = "dispose" => last'.self = a ]_vars

\* C25 amended: the same, where the entries also leave the registry by a
\* clearMarks, clearMeasures or teardown of another adapter unless neither
\* prefix scopeId + "::" is a prefix of the other.
C25_NoClosedState ==
    [][ \A a \in Adapters :
          TornDown(a) =>
            /\ CreateStep(a) => StillForwarded(a)
            /\ Removed(a) =>
                 /\ IsCleanup(last'.op)
                 /\ last'.self \in Adapters
                 /\ last'.self # a => ~ Disjoint(a, last'.self) ]_vars

C25_Witness ==
    \E a \in Adapters :
        /\ TornDown(a)
        /\ last.self = a /\ last.op \in {"mark", "measure"}
        /\ \E e \in Range(getEntries(a)) : e.by = a

\* C26: a teardown of an adapter that directly follows a teardown of the
\* same adapter leaves the registry's entries, the registry's listener
\* registrations and the adapter's identifier and bookkeeping as the first
\* teardown left them.
C26_Idempotent ==
    [][ \A a \in Adapters :
          (last.op = "dispose" /\ last.self = a /\ DisposeStep(a)) =>
            /\ entries' = entries
            /\ listeners' = listeners
            /\ calls' = calls
            /\ randomId' = randomId ]_vars

\* an adapter holding two records has been torn down twice in a row while
\* the registry holds entries and registrations of others
C26_Witness ==
    /\ last.op = "dispose"
    /\ last.repeated
    /\ last.self \in Adapters
    /\ Len(calls[last.self]) = 2
    /\ entries # <<>>

(***************************************************************************)
(* C28                                                                     *)
(***************************************************************************)
\* adapter a is called with addEventListener
SubscribeStep(a) == last'.op = "addEventListener" /\ last'.self = a

\* C28: every addEventListener call through an adapter forwards exactly one
\* addEventListener call with the same type, listener and options to the
\* registry, whether or not the registration is already recorded; a call
\* with a null listener leaves the bookkeeping as it was, no record has a
\* null listener, and a teardown forwards no removeEventListener call with a
\* null listener.
C28_AlwaysForwards ==
    [][ \A a \in Adapters :
          /\ SubscribeStep(a) =>
               /\ last'.fwd = << ListenerCall("addEventListener", last'.type,
                                              last'.listener,
                                              last'.options) >>
               /\ listeners' = performance_addEventListener(listeners,
                                  last'.type, last'.listener, last'.options)
               /\ last'.listener = Null => calls' = calls
               /\ _findListenerIndex(a, last'.type, last'.listener,
                                     last'.options) # 0 => calls' = calls
          /\ \A i \in 1..Len(calls'[a]) : calls'[a][i].listener # Null
          /\ DisposeStep(a) =>
               \A i \in 1..Len(last'.fwd) :
                  last'.fwd[i].fn = "removeEventListener"
                    => last'.fwd[i].listener # Null ]_vars

\* a subscription without options was forwarded although it was already
\* recorded: the last record of the bookkeeping is the one of a later
\* subscription with {}
C28_Witness ==
    \E a \in Adapters :
        /\ last.op = "addEventListener"
        /\ last.self = a
        /\ last.listener # Null
        /\ last.options = OptUndefined
        /\ last.fwd = << ListenerCall("addEventListener", last.type,
                                      last.listener, OptUndefined) >>
        /\ Len(calls[a]) = 2
        /\ calls[a][1].options = OptObject("false")
        /\ calls[a][2].options = OptObject("undefined")

====
